---------------------------- MODULE Spec2Model ----------------------------
(***************************************************************************)
(* The "poll until ready" loop of the flaky-test guide                     *)
(* (.circleci/fix-flaky-test.md, lines 90-99):                             *)
(*                                                                         *)
(*   await new Promise(resolve => {                                        *)
(*     const checkInitialization = () => {                                 *)
(*       if (openmct.components && openmct.components.ObjectView) {        *)
(*         resolve();                                                      *)
(*       } else {                                                          *)
(*         setTimeout(checkInitialization, 50);                            *)
(*       }                                                                 *)
(*     };                                                                  *)
(*     checkInitialization();                                              *)
(*   });                                                                   *)
(*                                                                         *)
(* Each execution of this block is one waiter: a promise, the closure      *)
(* checkInitialization and at most one pending timer.  The condition of    *)
(* the if is the predicate; it is caller-owned state, so each evaluation   *)
(* is an input: "T" (truthy), "F" (falsy) or "X" (the evaluation throws,   *)
(* as it does when openmct is undefined).  Time is kept per waiter as the  *)
(* milliseconds since its call; a timer holds the milliseconds left until  *)
(* it is due and may fire late, never early.                               *)
(***************************************************************************)
EXTENDS Integers, FiniteSets, Sequences, TLC

VARIABLES
    st,           \* st[w]: "Idle" (not called), "Polling" (promise pending),
                  \*        "Resolved" (resolve() settled it), "Rejected" (the executor threw)
    timer,        \* timer[w]: milliseconds until the pending setTimeout is due, or NoTimer
    evals,        \* evals[w]: evaluations of the predicate so far (counted up to MaxEvals)
    falses,       \* falses[w]: evaluations that returned a falsy value (up to MaxEvals)
    last,         \* last[w]: result of the latest evaluation, "none" before the first
    resolveCalls, \* resolveCalls[w]: calls of resolve() so far (up to MaxEvals)
    uncaught,     \* uncaught[w]: the predicate threw inside a timer callback
    elapsed,      \* elapsed[w]: milliseconds since the call (counted up to MaxElapsed)
    lastEvalAt,   \* lastEvalAt[w]: elapsed[w] at the latest evaluation
    \* The test cases of FlakyTestsSpec.js and of the guide, run on an event loop:
    clock,        \* milliseconds since the test body started
    timers,       \* the pending setTimeout calls: [id, due, seq]
    nseq,         \* setTimeout calls made so far (the order of registration)
    mem           \* the local variables of the running test; mem.test names it

waiterVars == <<st, timer, evals, falses, last, resolveCalls, uncaught, elapsed, lastEvalAt>>

testVars == <<clock, timers, nseq, mem>>

vars == <<st, timer, evals, falses, last, resolveCalls, uncaught, elapsed, lastEvalAt,
          clock, timers, nseq, mem>>

\* ------------------------------------------------------------------ bounds
\* Granularity of the clock: one Tick advances time by this many milliseconds.
TickMs == 25
\* Evaluations are counted exactly below this number and saturate at it.
MaxEvals == 3
\* The deadline a WaitRequest would carry; the loop of the guide has none.
TimeoutMs == 100

\* ------------------------------------------------------- program constants
\* setTimeout(checkInitialization, 50)
PollDelay == 50
\* No setTimeout is pending.
NoTimer == -1

\* Elapsed time is counted exactly below this number and saturates at it.
MaxElapsed == (MaxEvals + 1) * PollDelay

\* The two concurrently running executions of the block.
Waiters == {"a", "b"}

\* What one evaluation of the if-condition can do.
Results == {"T", "F", "X"}

Terminal == {"Resolved", "Rejected"}

\* ------------------------------------------------------------ pure helpers
Inc(n) == IF n < MaxEvals THEN n + 1 ELSE n

AddMs(e, d) == IF e + d > MaxElapsed THEN MaxElapsed ELSE e + d

SubMs(t, d) == IF t = NoTimer THEN NoTimer ELSE IF t > d THEN t - d ELSE 0

\* Faulty variant of Ready: the condition inverted.
ReadyInverted(r) == r = "F"

\* The if-condition: the branch that calls resolve() is taken on a truthy value.
Ready(r) == r = "T"

\* Faulty variant of TimerAfter: the else is missing, the timer is set on success too.
TimerAfterAlways(r) == IF r = "X" THEN NoTimer ELSE PollDelay

\* Faulty variant of TimerAfter: setTimeout(checkInitialization) without the delay.
TimerAfterNoDelay(r) == IF r = "X" \/ Ready(r) THEN NoTimer ELSE 0

\* Faulty variant of TimerAfter: the retry is also set when the condition throws.
TimerAfterThrowRetry(r) == IF r # "X" /\ Ready(r) THEN NoTimer ELSE PollDelay

\* The timer this waiter holds after one run of checkInitialization: the
\* callback's own timer has fired (or none was set yet), and the else branch
\* sets a new one; a throwing condition reaches neither branch.
TimerAfter(r) == IF r = "X" \/ Ready(r) THEN NoTimer ELSE PollDelay

\* The promise after one run of checkInitialization.  resolve() settles a
\* pending promise and is a no-op on a settled one; an exception thrown while
\* the executor runs (sync) rejects the promise, one thrown from a timer
\* callback leaves it as it is.
StateAfter(s, r, sync) ==
    IF r = "X" THEN (IF sync /\ s = "Polling" THEN "Rejected" ELSE s)
    ELSE IF Ready(r) THEN (IF s = "Polling" THEN "Resolved" ELSE s)
    ELSE s

ResolveCallsAfter(n, r) == IF r # "X" /\ Ready(r) THEN Inc(n) ELSE n

UncaughtAfter(u, r, sync) == u \/ (r = "X" /\ ~sync)

\* Faulty variant of SetTimer: one timer handle shared by all waiters.
SetTimerShared(tm, w, v) == [u \in Waiters |-> v]

\* Each closure owns its timer.
SetTimer(tm, w, v) == [tm EXCEPT ![w] = v]

\* ------------------------------------------------------------------- state
TypeOK ==
    /\ st \in [Waiters -> {"Idle", "Polling", "Resolved", "Rejected"}]
    /\ timer \in [Waiters -> {NoTimer} \cup (0..PollDelay)]
    /\ evals \in [Waiters -> 0..MaxEvals]
    /\ falses \in [Waiters -> 0..MaxEvals]
    /\ last \in [Waiters -> Results \cup {"none"}]
    /\ resolveCalls \in [Waiters -> 0..MaxEvals]
    /\ uncaught \in [Waiters -> BOOLEAN]
    /\ elapsed \in [Waiters -> 0..MaxElapsed]
    /\ lastEvalAt \in [Waiters -> 0..MaxElapsed]

\* No waiter has been called.
WaitersIdle ==
    /\ st = [w \in Waiters |-> "Idle"]
    /\ timer = [w \in Waiters |-> NoTimer]
    /\ evals = [w \in Waiters |-> 0]
    /\ falses = [w \in Waiters |-> 0]
    /\ last = [w \in Waiters |-> "none"]
    /\ resolveCalls = [w \in Waiters |-> 0]
    /\ uncaught = [w \in Waiters |-> FALSE]
    /\ elapsed = [w \in Waiters |-> 0]
    /\ lastEvalAt = [w \in Waiters |-> 0]

\* No test case is running.
NoTest ==
    /\ clock = 0
    /\ timers = {}
    /\ nseq = 0
    /\ mem = [test |-> "none"]

Init == WaitersIdle /\ NoTest

\* One run of checkInitialization by waiter w whose condition evaluates to r.
CheckInitialization(w, r, sync, s) ==
    /\ st' = [st EXCEPT ![w] = StateAfter(s, r, sync)]
    /\ timer' = SetTimer(timer, w, TimerAfter(r))
    /\ evals' = [evals EXCEPT ![w] = Inc(@)]
    /\ falses' = [falses EXCEPT ![w] = IF r = "F" THEN Inc(@) ELSE @]
    /\ last' = [last EXCEPT ![w] = r]
    /\ resolveCalls' = [resolveCalls EXCEPT ![w] = ResolveCallsAfter(@, r)]
    /\ uncaught' = [uncaught EXCEPT ![w] = UncaughtAfter(@, r, sync)]

\* await new Promise(resolve => { ...; checkInitialization(); }): the executor
\* runs synchronously, so the first evaluation happens in the call itself.
Start(w) ==
    /\ st[w] = "Idle"
    /\ \E r \in Results : CheckInitialization(w, r, TRUE, "Polling")
    /\ elapsed' = [elapsed EXCEPT ![w] = 0]
    /\ lastEvalAt' = [lastEvalAt EXCEPT ![w] = 0]
    /\ UNCHANGED testVars

\* The event loop runs a due timer's callback, which is checkInitialization
\* itself: it looks at nothing but the condition.
Fire(w) ==
    /\ timer[w] = 0
    /\ \E r \in Results : CheckInitialization(w, r, FALSE, st[w])
    /\ lastEvalAt' = [lastEvalAt EXCEPT ![w] = elapsed[w]]
    /\ UNCHANGED elapsed
    /\ UNCHANGED testVars

\* Time passes: pending timers come closer to being due, and a due timer
\* that has not run yet stays due.
Tick ==
    /\ \E w \in Waiters : st[w] = "Polling" \/ timer[w] # NoTimer
    /\ timer' = [w \in Waiters |-> SubMs(timer[w], TickMs)]
    /\ elapsed' = [w \in Waiters |->
                      IF st[w] = "Polling" THEN AddMs(elapsed[w], TickMs) ELSE elapsed[w]]
    /\ UNCHANGED <<st, evals, falses, last, resolveCalls, uncaught, lastEvalAt>>
    /\ UNCHANGED testVars

Next ==
    \/ \E w \in Waiters : Start(w)
    \/ \E w \in Waiters : Fire(w)
    \/ Tick

Spec == Init /\ [][Next]_vars

\* The event loop runs every due timer callback, the clock advances, and the
\* test body reaches its await.
FairSpec ==
    /\ Spec
    /\ WF_vars(Tick)
    /\ \A w \in Waiters : WF_vars(Fire(w))
    /\ \A w \in Waiters : WF_vars(Start(w))


\* ------------------------------------------------ one waiter running alone
\* What the caller and the event loop can see of waiter w.
View(w) ==
    [st |-> st[w], pending |-> timer[w] # NoTimer, evals |-> evals[w],
     resolveCalls |-> resolveCalls[w], uncaught |-> uncaught[w]]

AloneIdle ==
    [st |-> "Idle", pending |-> FALSE, evals |-> 0, resolveCalls |-> 0, uncaught |-> FALSE]

\* The block run by a single waiter, first evaluation returning r.
AloneStart(r) ==
    [st |-> StateAfter("Polling", r, TRUE), pending |-> TimerAfter(r) # NoTimer,
     evals |-> 1, resolveCalls |-> ResolveCallsAfter(0, r),
     uncaught |-> UncaughtAfter(FALSE, r, TRUE)]

\* Its timer callback, the evaluation returning r.
AloneFire(v, r) ==
    [st |-> StateAfter(v.st, r, FALSE), pending |-> TimerAfter(r) # NoTimer,
     evals |-> Inc(v.evals), resolveCalls |-> ResolveCallsAfter(v.resolveCalls, r),
     uncaught |-> UncaughtAfter(v.uncaught, r, FALSE)]

RECURSIVE AloneAfterFalses(_)
AloneAfterFalses(k) ==
    IF k = 1 THEN AloneStart("F") ELSE AloneFire(AloneAfterFalses(k - 1), "F")

\* The single waiter after its predicate returned falsy k times and then l
\* ("none" or "F": nothing after the k falsy results).
AloneRun(k, l) ==
    IF k = 0 THEN (IF l \in {"T", "X"} THEN AloneStart(l) ELSE AloneIdle)
    ELSE IF l \in {"T", "X"} THEN AloneFire(AloneAfterFalses(k), l)
    ELSE AloneAfterFalses(k)

\* ------------------------------------------------------------------ claims
\* The predicate of w was truthy at call time (and nothing falsy came before).
TrueAtCallTime(w) == evals[w] >= 1 /\ falses[w] = 0 /\ last[w] = "T"

\* C2: when the predicate is true at call time, the promise is resolved, the
\* predicate has been evaluated exactly once and no timer is pending, in the
\* call itself and in every later state (so no second poll is ever scheduled).
C2_TrueAtCallResolvesAfterOnePoll ==
    \A w \in Waiters :
        TrueAtCallTime(w) =>
            /\ st[w] = "Resolved"
            /\ evals[w] = 1
            /\ resolveCalls[w] = 1
            /\ timer[w] = NoTimer
            /\ elapsed[w] = 0

C2_Witness ==
    \E w \in Waiters : TrueAtCallTime(w) /\ st[w] = "Resolved" /\ evals[w] = 1

\* C4: a waiter whose predicate returned falsy k times and then truthy has
\* evaluated it exactly k+1 times when it is resolved (for every k counted
\* exactly, k < MaxEvals), the last result being the truthy one, and resolve()
\* was called once.
C4_ExactlyKPlusOneEvaluations ==
    \A w \in Waiters :
        (st[w] = "Resolved" /\ falses[w] < MaxEvals) =>
            /\ evals[w] = falses[w] + 1
            /\ last[w] = "T"
            /\ resolveCalls[w] = 1
            /\ timer[w] = NoTimer

C4_Witness ==
    \E w \in Waiters : st[w] = "Resolved" /\ falses[w] = 2 /\ evals[w] = 3

\* Waiter w took a step of its own (its call, or its timer callback).
Acted(w) ==
    \/ st'[w] # st[w]
    \/ evals'[w] # evals[w]
    \/ timer'[w] > timer[w]
    \/ timer[w] # NoTimer /\ timer'[w] = NoTimer
    \/ last'[w] # last[w]

Untouched(u) ==
    /\ st'[u] = st[u]
    /\ timer'[u] = timer[u]
    /\ evals'[u] = evals[u]
    /\ falses'[u] = falses[u]
    /\ last'[u] = last[u]
    /\ resolveCalls'[u] = resolveCalls[u]
    /\ uncaught'[u] = uncaught[u]
    /\ elapsed'[u] = elapsed[u]
    /\ lastEvalAt'[u] = lastEvalAt[u]

SameAsAlone == \A w \in Waiters : View(w) = AloneRun(falses[w], last[w])

\* C9: two waiters do not interact: after every step each waiter's promise
\* state, pending timer and number of evaluations are what the block gives
\* when run alone on the same predicate results, and a step of one waiter
\* (its call, a poll, its resolution or its failure) leaves the other's state
\* and timer unchanged.
C9_WaitersAreIsolated ==
    [][/\ SameAsAlone'
       /\ \A w \in Waiters : Acted(w) => \A u \in Waiters \ {w} : Untouched(u)]_vars

C9_Witness ==
    /\ st["a"] = "Resolved" /\ evals["a"] = 2
    /\ st["b"] = "Polling" /\ timer["b"] # NoTimer /\ evals["b"] = 3

\* C10: the first evaluation happens in the call (elapsed time 0), two
\* consecutive evaluations of a waiter are at least PollDelay apart, and the
\* n-th evaluation happens no earlier than (n-1)*PollDelay after the call
\* (checked while the clock and the counter are exact).
C10_PollsAtLeastPollDelayApart ==
    [][\A w \in Waiters :
          (evals'[w] = evals[w] + 1 /\ elapsed'[w] < MaxElapsed) =>
              /\ (evals[w] = 0 => lastEvalAt'[w] = 0 /\ elapsed'[w] = 0)
              /\ (evals[w] > 0 => lastEvalAt'[w] - lastEvalAt[w] >= PollDelay)
              /\ lastEvalAt'[w] >= evals[w] * PollDelay]_vars

C10_Witness ==
    \E w \in Waiters : evals[w] = 3 /\ lastEvalAt[w] >= 2 * PollDelay /\ elapsed[w] < MaxElapsed

\* C1 (as claimed): every started wait whose predicate only returns values
\* eventually reaches a terminal outcome.
C1_EveryWaitTerminates ==
    \A w \in Waiters :
        (st[w] = "Polling" /\ ~uncaught[w]) ~> (st[w] \in Terminal \/ uncaught[w])

\* C3 (as claimed): a wait whose predicate has never been true has produced
\* TimedOut once more than TimeoutMs + PollDelay have elapsed.
C3_NeverTrueTimesOut ==
    \A w \in Waiters :
        (last[w] = "F" /\ ~uncaught[w] /\ elapsed[w] > TimeoutMs + PollDelay) =>
            st[w] = "TimedOut"

\* The outcomes delivered to the caller of w so far.
Outcomes(w) == IF st[w] \in Terminal THEN 1 ELSE 0

\* C5 (as claimed): each wait produces exactly one outcome: resolve() is
\* never called twice, and a wait that has stopped (called, no timer
\* pending) has delivered its outcome.
C5_ExactlyOneOutcome ==
    \A w \in Waiters :
        /\ resolveCalls[w] <= 1
        /\ (st[w] # "Idle" /\ timer[w] = NoTimer) => Outcomes(w) = 1

\* C8 (as claimed): once the predicate has raised an error the wait has ended
\* with the error (the promise is rejected), and no timer is pending.
C8_PredicateErrorEndsWait ==
    \A w \in Waiters :
        last[w] = "X" => (st[w] = "Rejected" /\ timer[w] = NoTimer)


\* The moves of the state machine with T as its terminal states: a waiter is
\* Idle, Polling or in T; the call takes it from Idle to Polling or, the first
\* poll deciding, on to a terminal state; a terminal state is never left, has
\* no timer pending and sees no evaluation.
StateMachine(T) ==
    \A w \in Waiters :
        /\ st'[w] \in {"Idle", "Polling"} \cup T
        /\ st[w] = "Polling" => st'[w] # "Idle"
        /\ st[w] \in T =>
              /\ st'[w] = st[w]
              /\ timer[w] = NoTimer /\ timer'[w] = NoTimer
              /\ evals'[w] = evals[w] /\ last'[w] = last[w]

\* C11 (as claimed): the terminal states are Satisfied and TimedOut.
C11_OnlySatisfiedOrTimedOut == [][StateMachine({"Resolved", "TimedOut"})]_vars

\* C11 (amended): a waiter only moves Idle -> Polling -> one terminal state,
\* the terminal states being Satisfied, TimedOut and PredicateError (the
\* promise rejected by a predicate that throws in the call); a terminal state
\* is never left and no predicate evaluation happens in it.
C11_StateMachineWithPredicateError ==
    [][StateMachine({"Resolved", "TimedOut", "Rejected"})]_vars

C11_Witness ==
    /\ st["a"] = "Rejected" /\ evals["a"] = 1
    /\ st["b"] = "Resolved" /\ evals["b"] = 2


\* ======================================================================
\* The test cases of FlakyTestsSpec.js and their fixed versions in the guide,
\* run on the event loop: a test body registers timers, the loop runs the
\* callback of the timer that is due first (the earlier registered one first
\* when two are due together), and promise reactions run within the callback
\* that settles the promise.
\* ======================================================================

\* Delays are sampled every Grain milliseconds of their range, and at its end.
Grain == 10
\* Date.now() when the test body starts (any positive number of milliseconds).
Epoch == 1000

\* The values Math.floor(Math.random() * span + min) is sampled at.
Delays(min, span) ==
    {d \in min..(min + span - 1) : (d - min) % Grain = 0} \cup {min + span - 1}

DateNow(c) == Epoch + c

\* setTimeout(callback, delay), called at time now as the n-th call.
SetTimeout(ts, n, k, i, delay, now) ==
    ts \cup {[k |-> k, i |-> i, due |-> now + delay, seq |-> n]}

\* The timer whose callback the event loop runs next.
NextTimer(ts) ==
    CHOOSE t \in ts : \A u \in ts : t.due < u.due \/ (t.due = u.due /\ t.seq <= u.seq)

IsNext(k, i) ==
    /\ timers # {}
    /\ NextTimer(timers).k = k
    /\ NextTimer(timers).i = i

\* The event loop takes the next timer off and the clock stands at its due time.
PopTimer == timers \ {NextTimer(timers)}

DueNow == NextTimer(timers).due

\* ---- FLAKY TEST 1: should initialize components with proper timing
InitDelayMin == 50
InitDelaySpan == 150
ComponentCheckDelay == 10
InitCheckAt == 100

\* mockAsyncInit() registers its timer, then the fixed check is registered.
BeginInit(d) ==
    /\ mem.test = "none"
    /\ mem' = [test |-> "init", initializationComplete |-> FALSE,
               componentCheckComplete |-> FALSE, checked |-> FALSE,
               sawInit |-> FALSE, sawComponentCheck |-> FALSE, done |-> FALSE]
    /\ timers' = SetTimeout(SetTimeout({}, 0, "init", 0, d, 0), 1, "check", 0, InitCheckAt, 0)
    /\ nseq' = 2
    /\ clock' = 0
    /\ UNCHANGED waiterVars

\* The init timer: initializationComplete = true; resolve(); the then-callback
\* registers the component check.
InitTimer ==
    /\ mem.test = "init"
    /\ IsNext("init", 0)
    /\ clock' = DueNow
    /\ mem' = [mem EXCEPT !.initializationComplete = TRUE]
    /\ timers' = SetTimeout(PopTimer, nseq, "component", 0, ComponentCheckDelay, DueNow)
    /\ nseq' = nseq + 1
    /\ UNCHANGED waiterVars

\* The component check: componentCheckComplete = true; ...; done().
ComponentTimer ==
    /\ mem.test = "init"
    /\ IsNext("component", 0)
    /\ clock' = DueNow
    /\ mem' = [mem EXCEPT !.componentCheckComplete = TRUE, !.done = TRUE]
    /\ timers' = PopTimer
    /\ UNCHANGED <<nseq, waiterVars>>

\* The fixed check: expect(initializationComplete).toBe(true);
\* expect(componentCheckComplete).toBe(true).
InitCheckTimer ==
    /\ mem.test = "init"
    /\ IsNext("check", 0)
    /\ clock' = DueNow
    /\ mem' = [mem EXCEPT !.checked = TRUE,
                          !.sawInit = mem.initializationComplete,
                          !.sawComponentCheck = mem.componentCheckComplete]
    /\ timers' = PopTimer
    /\ UNCHANGED <<nseq, waiterVars>>

\* ---- the guide's fixed version of test 1
\* Faulty variant of AfterMockAsyncInit: the flag is not set.
AfterMockAsyncInitUnset(m) == m

\* mockAsyncInit after its await: initializationComplete = true.
AfterMockAsyncInit(m) == [m EXCEPT !.initializationComplete = TRUE]

\* One run of checkInitialization in the fixed test: resolve() when
\* openmct.components.ObjectView is defined, which resumes the test body at its
\* assertions; otherwise poll again.
FixedPoll(m) ==
    [m EXCEPT !.polls = Inc(@), !.observed = m.ready,
              !.pc = IF Ready(IF m.ready THEN "T" ELSE "F") THEN "asserting" ELSE "polling"]

\* await mockAsyncInit(): the test body waits for the init timer.
BeginInitFixed(d, rdy) ==
    /\ mem.test = "none"
    /\ mem' = [test |-> "initFixed", pc |-> "awaitInit", initializationComplete |-> FALSE,
               ready |-> rdy, observed |-> FALSE, polls |-> 0]
    /\ timers' = SetTimeout({}, 0, "finit", 0, d, 0)
    /\ nseq' = 1
    /\ clock' = 0
    /\ UNCHANGED waiterVars

\* The init timer resumes mockAsyncInit, which returns; the test body goes on
\* to the polling promise, whose executor polls at once.
FixedInitTimer ==
    /\ mem.test = "initFixed"
    /\ IsNext("finit", 0)
    /\ clock' = DueNow
    /\ mem' = FixedPoll(AfterMockAsyncInit(mem))
    /\ timers' = IF mem'.pc = "polling"
                 THEN SetTimeout(PopTimer, nseq, "fpoll", 0, PollDelay, DueNow)
                 ELSE PopTimer
    /\ nseq' = nseq + 1
    /\ UNCHANGED waiterVars

\* setTimeout(checkInitialization, 50) comes due.
FixedPollTimer ==
    /\ mem.test = "initFixed"
    /\ IsNext("fpoll", 0)
    /\ mem.polls < MaxEvals
    /\ clock' = DueNow
    /\ mem' = FixedPoll(mem)
    /\ timers' = IF mem'.pc = "polling"
                 THEN SetTimeout(PopTimer, nseq, "fpoll", 0, PollDelay, DueNow)
                 ELSE PopTimer
    /\ nseq' = nseq + 1
    /\ UNCHANGED waiterVars

\* The application defines openmct.components.ObjectView.
ComponentsDefined ==
    /\ mem.test = "initFixed"
    /\ ~mem.ready
    /\ mem' = [mem EXCEPT !.ready = TRUE]
    /\ UNCHANGED <<clock, timers, nseq, waiterVars>>

\* ---- FLAKY TEST 2: should handle multiple event listeners correctly
ListenerDelayMin == 20
ListenerDelaySpan == 100
EventCheckAt == 50
NumListeners == 3

Listeners == 1..NumListeners

\* emit: one timer per registered listener, in the order of registration.
RECURSIVE EmitTimers(_, _)
EmitTimers(i, d) ==
    IF i = 0 THEN {} ELSE SetTimeout(EmitTimers(i - 1, d), i - 1, "listener", i, d[i], 0)

\* Three listeners are registered, the event is emitted, the check is registered.
BeginEvents(d) ==
    /\ mem.test = "none"
    /\ mem' = [test |-> "events", eventCount |-> 0, lastEventTime |-> 0,
               called |-> [i \in Listeners |-> 0], checked |-> FALSE,
               sawCount |-> 0, sawTime |-> 0]
    /\ timers' = SetTimeout(EmitTimers(NumListeners, d), NumListeners, "check", 0, EventCheckAt, 0)
    /\ nseq' = NumListeners + 1
    /\ clock' = 0
    /\ UNCHANGED waiterVars

\* A listener's timer: listener.callback(data); eventCount++; lastEventTime = Date.now().
ListenerRun(m, i, now) ==
    [m EXCEPT !.called[i] = @ + 1, !.eventCount = @ + 1, !.lastEventTime = DateNow(now)]

ListenerTimer(i) ==
    /\ mem.test = "events"
    /\ IsNext("listener", i)
    /\ clock' = DueNow
    /\ mem' = ListenerRun(mem, i, DueNow)
    /\ timers' = PopTimer
    /\ UNCHANGED <<nseq, waiterVars>>

\* The check: expect(eventCount).toBe(3); expect(lastEventTime).toBeGreaterThan(0); done().
EventCheckTimer ==
    /\ mem.test = "events"
    /\ IsNext("check", 0)
    /\ clock' = DueNow
    /\ mem' = [mem EXCEPT !.checked = TRUE, !.sawCount = mem.eventCount,
                          !.sawTime = mem.lastEventTime]
    /\ timers' = PopTimer
    /\ UNCHANGED <<nseq, waiterVars>>

\* ---- the guide's fixed version of test 2
\* Faulty variant of PromiseAll: settled by the first promise (Promise.race).
PromiseRace(resolved, all) == resolved # {}

\* Promise.all(promises) is resolved when every promise is.
PromiseAll(resolved, all) == resolved = all

\* await mockEventEmitter.emit('test-event', ...): the timers are registered
\* and the test body waits for emit's promise.
BeginEventsFixed(d) ==
    /\ mem.test = "none"
    /\ mem' = [test |-> "eventsFixed", pc |-> "awaitEmit", eventCount |-> 0,
               lastEventTime |-> 0, called |-> [i \in Listeners |-> 0], resolved |-> {}]
    /\ timers' = EmitTimers(NumListeners, d)
    /\ nseq' = NumListeners
    /\ clock' = 0
    /\ UNCHANGED waiterVars

\* A listener's timer in the fixed emitter: the callback, the counters, then
\* resolve(); when Promise.all is resolved by it, emit returns and the test
\* body resumes at its assertions.
FixedListenerRun(m, i, now) ==
    [ListenerRun(m, i, now) EXCEPT
        !.resolved = @ \cup {i},
        !.pc = IF PromiseAll(m.resolved \cup {i}, Listeners) THEN "asserting" ELSE m.pc]

FixedListenerTimer(i) ==
    /\ mem.test = "eventsFixed"
    /\ IsNext("listener", i)
    /\ clock' = DueNow
    /\ mem' = FixedListenerRun(mem, i, DueNow)
    /\ timers' = PopTimer
    /\ UNCHANGED <<nseq, waiterVars>>

\* ---- FLAKY TEST 3: should handle overlapping async operations
Op1DelayMin == 50
Op1DelaySpan == 100
Op2DelayMin == 40
Op2DelaySpan == 120
Op3DelayMin == 30
Op3DelaySpan == 80

Ops == {"first", "second", "third"}

\* promises = [asyncOp1(), asyncOp2(), asyncOp3()]; await Promise.all(promises).
BeginOps(d1, d2, d3) ==
    /\ mem.test = "none"
    /\ mem' = [test |-> "ops", pc |-> "awaitAll", results |-> <<>>, resolved |-> {}]
    /\ timers' = SetTimeout(SetTimeout(SetTimeout({}, 0, "first", 0, d1, 0),
                                       1, "second", 0, d2, 0), 2, "third", 0, d3, 0)
    /\ nseq' = 3
    /\ clock' = 0
    /\ UNCHANGED waiterVars

\* Faulty variant of OpRun: the await resumes on the first operation to
\* complete (Promise.race in place of Promise.all).
OpRunFirstSettles(m, op, now) ==
    [m EXCEPT !.results = Append(@, [op |-> op, time |-> now]),
              !.resolved = @ \cup {op},
              !.pc = "asserting"]

\* An operation's timer: results.push({ op, time: Date.now() - startTime });
\* resolve(op); the await resumes when Promise.all is resolved by it.
OpRun(m, op, now) ==
    [m EXCEPT !.results = Append(@, [op |-> op, time |-> now]),
              !.resolved = @ \cup {op},
              !.pc = IF PromiseAll(m.resolved \cup {op}, Ops) THEN "asserting" ELSE m.pc]

OpTimer(op) ==
    /\ mem.test = "ops"
    /\ IsNext(op, 0)
    /\ clock' = DueNow
    /\ mem' = OpRun(mem, op, DueNow)
    /\ timers' = PopTimer
    /\ UNCHANGED <<nseq, waiterVars>>

\* ---- FLAKY TEST 4: should handle DOM updates with proper timing
DomDelayMin == 100
DomDelaySpan == 200
DomCheckAt == 150

\* mockDOMUpdate() registers its timer, then the check is registered.
BeginDom(d) ==
    /\ mem.test = "none"
    /\ mem' = [test |-> "dom", display |-> "undefined", innerHTML |-> "",
               addCalls |-> <<>>, domUpdateComplete |-> FALSE, checked |-> FALSE,
               sawDisplay |-> "undefined", sawInnerHTML |-> "", sawAddCalls |-> <<>>,
               sawComplete |-> FALSE]
    /\ timers' = SetTimeout(SetTimeout({}, 0, "update", 0, d, 0), 1, "check", 0, DomCheckAt, 0)
    /\ nseq' = 2
    /\ clock' = 0
    /\ UNCHANGED waiterVars

\* The update timer: style.display = 'block'; innerHTML = 'Updated content';
\* classList.add('updated'); domUpdateComplete = true.
DomUpdateTimer ==
    /\ mem.test = "dom"
    /\ IsNext("update", 0)
    /\ clock' = DueNow
    /\ mem' = [mem EXCEPT !.display = "block", !.innerHTML = "Updated content",
                          !.addCalls = Append(@, "updated"), !.domUpdateComplete = TRUE]
    /\ timers' = PopTimer
    /\ UNCHANGED <<nseq, waiterVars>>

\* The check: the four expectations on the mock element, then done().
DomCheckTimer ==
    /\ mem.test = "dom"
    /\ IsNext("check", 0)
    /\ clock' = DueNow
    /\ mem' = [mem EXCEPT !.checked = TRUE, !.sawDisplay = mem.display,
                          !.sawInnerHTML = mem.innerHTML, !.sawAddCalls = mem.addCalls,
                          !.sawComplete = mem.domUpdateComplete]
    /\ timers' = PopTimer
    /\ UNCHANGED <<nseq, waiterVars>>

\* ---- FLAKY TEST 5: should handle memory operations correctly
GcDelayMin == 50
GcDelaySpan == 150
GcCheckAt == 100
NumObjects == 5

Objects == 1..NumObjects

\* The cleanup delays are sampled at every fifth sample of their range.
CoarseDelays(min, span) ==
    {d \in Delays(min, span) : (d - min) % (5 * Grain) = 0 \/ d = min + span - 1}

\* createObject() called i times: each call registers a cleanup timer.
RECURSIVE CreateTimers(_, _)
CreateTimers(i, d) ==
    IF i = 0 THEN {} ELSE SetTimeout(CreateTimers(i - 1, d), i - 1, "cleanup", i, d[i], 0)

\* for (let i = 0; i < 5; i++) objects.push(createObject()); then the check
\* is registered.
BeginGc(d) ==
    /\ mem.test = "none"
    /\ mem' = [test |-> "gc", objectsCreated |-> NumObjects, objectsDestroyed |-> 0,
               checked |-> FALSE, sawCreated |-> 0, sawDestroyed |-> 0]
    /\ timers' = SetTimeout(CreateTimers(NumObjects, d), NumObjects, "check", 0, GcCheckAt, 0)
    /\ nseq' = NumObjects + 1
    /\ clock' = 0
    /\ UNCHANGED waiterVars

\* A cleanup timer: obj.data = null; objectsDestroyed++.
CleanupTimer(i) ==
    /\ mem.test = "gc"
    /\ IsNext("cleanup", i)
    /\ clock' = DueNow
    /\ mem' = [mem EXCEPT !.objectsDestroyed = @ + 1]
    /\ timers' = PopTimer
    /\ UNCHANGED <<nseq, waiterVars>>

\* The check: expect(objectsCreated).toBe(5); expect(objectsDestroyed).toBe(5); done().
GcCheckTimer ==
    /\ mem.test = "gc"
    /\ IsNext("check", 0)
    /\ clock' = DueNow
    /\ mem' = [mem EXCEPT !.checked = TRUE, !.sawCreated = mem.objectsCreated,
                          !.sawDestroyed = mem.objectsDestroyed]
    /\ timers' = PopTimer
    /\ UNCHANGED <<nseq, waiterVars>>

\* ---- the test cases as one system: one of them is started and runs
TestsNext ==
    \/ \E d \in Delays(InitDelayMin, InitDelaySpan) : BeginInit(d)
    \/ InitTimer
    \/ ComponentTimer
    \/ InitCheckTimer
    \/ \E d \in Delays(InitDelayMin, InitDelaySpan), rdy \in BOOLEAN : BeginInitFixed(d, rdy)
    \/ FixedInitTimer
    \/ FixedPollTimer
    \/ ComponentsDefined
    \/ \E d \in [Listeners -> Delays(ListenerDelayMin, ListenerDelaySpan)] : BeginEvents(d)
    \/ \E i \in Listeners : ListenerTimer(i)
    \/ EventCheckTimer
    \/ \E d \in [Listeners -> Delays(ListenerDelayMin, ListenerDelaySpan)] : BeginEventsFixed(d)
    \/ \E i \in Listeners : FixedListenerTimer(i)
    \/ \E d1 \in Delays(Op1DelayMin, Op1DelaySpan), d2 \in Delays(Op2DelayMin, Op2DelaySpan),
          d3 \in Delays(Op3DelayMin, Op3DelaySpan) : BeginOps(d1, d2, d3)
    \/ \E op \in Ops : OpTimer(op)
    \/ \E d \in Delays(DomDelayMin, DomDelaySpan) : BeginDom(d)
    \/ DomUpdateTimer
    \/ DomCheckTimer
    \/ \E d \in [Objects -> CoarseDelays(GcDelayMin, GcDelaySpan)] : BeginGc(d)
    \/ \E i \in Objects : CleanupTimer(i)
    \/ GcCheckTimer

TestsSpec == Init /\ [][TestsNext]_vars

\* ------------------------------------------------- claims on the test cases
\* C12: in the fixed emitter no listener is called twice, and the test body
\* resumes after `await emit` only when every registered listener has been
\* called exactly once, whatever the listeners' delays: eventCount is then the
\* number of listeners and lastEventTime is set.
C12_EmitResolvesAfterAllListeners ==
    mem.test = "eventsFixed" =>
        /\ \A i \in Listeners : mem.called[i] <= 1
        /\ mem.pc = "asserting" =>
              /\ \A i \in Listeners : mem.called[i] = 1
              /\ mem.eventCount = NumListeners
              /\ mem.lastEventTime > 0
              /\ timers = {}

C12_Witness ==
    /\ mem.test = "eventsFixed"
    /\ mem.pc = "asserting"
    /\ mem.eventCount = 3
    /\ mem.lastEventTime = DateNow(ListenerDelayMin + ListenerDelaySpan - 1)

\* C13: in the fixed initialization test the assertions run only after
\* mockAsyncInit has set initializationComplete and the polling loop has seen
\* openmct.components.ObjectView defined, whatever the init delay; before
\* mockAsyncInit has finished nothing has been polled.
C13_AssertionsAfterInitAndPoll ==
    mem.test = "initFixed" =>
        /\ mem.pc = "asserting" =>
              mem.initializationComplete /\ mem.observed /\ mem.ready
        /\ mem.pc = "awaitInit" => mem.polls = 0 /\ ~mem.initializationComplete
        /\ mem.pc = "polling" => mem.initializationComplete /\ ~mem.observed

C13_Witness ==
    /\ mem.test = "initFixed"
    /\ mem.pc = "asserting"
    /\ mem.polls = 2
    /\ clock > InitDelayMin + PollDelay

\* C14 (as claimed): when the check at 100 ms of the initialization test runs,
\* initializationComplete and componentCheckComplete are both true.
C14_InitCheckSeesBothFlags ==
    (mem.test = "init" /\ mem.checked) => (mem.sawInit /\ mem.sawComponentCheck)

\* C15 (as claimed): when the check at 50 ms of the event-listener test runs,
\* all three listeners have run: eventCount is 3 and lastEventTime is positive.
C15_EventCheckSeesAllListeners ==
    (mem.test = "events" /\ mem.checked) =>
        (mem.sawCount = NumListeners /\ mem.sawTime > 0)

\* C16 (as claimed): the three operations complete in the order third, first,
\* second.
C16_OpsCompleteThirdFirstSecond ==
    (mem.test = "ops" /\ mem.pc = "asserting") =>
        /\ Len(mem.results) = 3
        /\ mem.results[1].op = "third"
        /\ mem.results[2].op = "first"
        /\ mem.results[3].op = "second"

\* C17 (as claimed): when the check at 150 ms of the DOM-update test runs, the
\* update has completed.
C17_DomCheckSeesUpdate ==
    (mem.test = "dom" /\ mem.checked) =>
        /\ mem.sawDisplay = "block"
        /\ mem.sawInnerHTML = "Updated content"
        /\ \E k \in 1..Len(mem.sawAddCalls) : mem.sawAddCalls[k] = "updated"
        /\ mem.sawComplete

\* C18 (as claimed): when the check at 100 ms of the object-lifecycle test
\* runs, five objects were created and five destroyed.
C18_GcCheckSeesAllDestroyed ==
    (mem.test = "gc" /\ mem.checked) =>
        (mem.sawCreated = NumObjects /\ mem.sawDestroyed = NumObjects)

\* ======================================================================
\* The notification tests (Notifications List, Notification Overlay).  The
\* steps are those of the test script; the application's reactions are the
\* ones the script expects of it: a notification list with an indicator
\* showing its size, a banner for the latest notification, and a dialog (the
\* list overlay) the user opens with the indicator button and closes.
\* ======================================================================

\* Notifications the model lets the application create.
MaxNotifs == 4
\* No banner is shown.
NoBanner == 0

\* Faulty variant of DismissOne: dismissing clears the whole list.
DismissAll(list, n) == {}

\* The list after the notification n was dismissed.
DismissOne(list, n) == list \ {n}

\* The number the indicator button shows ("Review n Notifications").
IndicatorCount(list) == Cardinality(list)

\* The dialog is detached once its last notification was dismissed.
DialogAfterDismiss(dlg, list) == dlg /\ list # {}

\* Faulty variant of DialogAfterNotification: a list that was closed after the
\* banner had disappeared opens again on the next notification.
DialogReopens(dlg, closedAfterBanner) == dlg \/ closedAfterBanner

\* A new notification leaves the dialog as it is.
DialogAfterNotification(dlg, closedAfterBanner) == dlg

\* The application raises a notification: it joins the list, the indicator
\* is updated and the banner shows it.
Notify(m) ==
    [m EXCEPT !.created = @ + 1,
              !.list = @ \cup {m.created + 1},
              !.indicator = IndicatorCount(m.list \cup {m.created + 1}),
              !.banner = m.created + 1,
              !.dialog = DialogAfterNotification(m.dialog, m.closedAfterBanner)]

\* page.goto('./')
OpenApp ==
    /\ mem.test = "none"
    /\ mem' = [test |-> "notifications", created |-> 0, dismissed |-> {}, list |-> {},
               indicator |-> 0, dialog |-> FALSE, banner |-> NoBanner,
               closedAfterBanner |-> FALSE, saves |-> 0]
    /\ UNCHANGED <<clock, timers, nseq, waiterVars>>

\* createNotification(page, { severity, message })
CreateNotification ==
    /\ mem.test = "notifications"
    /\ mem.created < MaxNotifs
    /\ mem' = Notify(mem)
    /\ UNCHANGED <<clock, timers, nseq, waiterVars>>

\* Click on the button "Review n Notifications": the list opens.
ClickReview ==
    /\ mem.test = "notifications"
    /\ mem.indicator > 0
    /\ ~mem.dialog
    /\ mem' = [mem EXCEPT !.dialog = TRUE, !.closedAfterBanner = FALSE]
    /\ UNCHANGED <<clock, timers, nseq, waiterVars>>

\* Click on the button "Dismiss notification of <message>" in the list.
DismissClick(n) ==
    /\ mem.test = "notifications"
    /\ mem.dialog
    /\ n \in mem.list
    /\ mem' = [mem EXCEPT !.dismissed = @ \cup {n},
                          !.list = DismissOne(mem.list, n),
                          !.indicator = IndicatorCount(DismissOne(mem.list, n)),
                          !.banner = IF @ = n THEN NoBanner ELSE @,
                          !.dialog = DialogAfterDismiss(@, DismissOne(mem.list, n))]
    /\ UNCHANGED <<clock, timers, nseq, waiterVars>>

\* The notification banner disappears (div[role="alert"] becomes hidden).
BannerDisappears ==
    /\ mem.test = "notifications"
    /\ mem.banner # NoBanner
    /\ mem' = [mem EXCEPT !.banner = NoBanner]
    /\ UNCHANGED <<clock, timers, nseq, waiterVars>>

\* Click on the "Close" button of the notification list.
CloseClick ==
    /\ mem.test = "notifications"
    /\ mem.dialog
    /\ mem' = [mem EXCEPT !.dialog = FALSE, !.closedAfterBanner = (mem.banner = NoBanner)]
    /\ UNCHANGED <<clock, timers, nseq, waiterVars>>

\* Edit, Save, "Save and Finish Editing" on the object (or its creation): the
\* application raises its notification of the save.
EditAndSave ==
    /\ mem.test = "notifications"
    /\ mem.created < MaxNotifs
    /\ mem' = [Notify(mem) EXCEPT !.saves = @ + 1]
    /\ UNCHANGED <<clock, timers, nseq, waiterVars>>

NotifNext ==
    \/ OpenApp
    \/ CreateNotification
    \/ ClickReview
    \/ \E n \in 1..MaxNotifs : DismissClick(n)
    \/ BannerDisappears
    \/ CloseClick
    \/ EditAndSave

NotifSpec == Init /\ [][NotifNext]_vars

\* C19: after any sequence of creating notifications and dismissing them one
\* by one, the list holds exactly the notifications created and not yet
\* dismissed and the indicator shows their number; a dismissal removes only
\* the dismissed one, and the dismissal of the last one hides the dialog.
C19_ListIsCreatedMinusDismissed ==
    [][mem'.test = "notifications" =>
          /\ mem'.list = (1..mem'.created) \ mem'.dismissed
          /\ mem'.indicator = Cardinality(mem'.list)
          /\ mem'.dialog => mem'.list # {}
          /\ (mem.test = "notifications" /\ mem'.dismissed # mem.dismissed) =>
                /\ Cardinality(mem.list \ mem'.list) = 1
                /\ mem.list \ mem'.list = mem'.dismissed \ mem.dismissed
                /\ mem'.list = {} => ~mem'.dialog]_vars

C19_Witness ==
    /\ mem.test = "notifications"
    /\ mem.created = 2
    /\ mem.dismissed = {1, 2}
    /\ mem.list = {}
    /\ ~mem.dialog

\* C20: once the user has closed the notification list after the banner had
\* disappeared, edit and save actions on the object do not reopen it: the
\* dialog is hidden after the save.
C20_SaveDoesNotReopenList ==
    [][(/\ mem.test = "notifications"
        /\ mem.closedAfterBanner
        /\ mem'.saves # mem.saves) => (~mem.dialog /\ ~mem'.dialog)]_vars

C20_Witness ==
    /\ mem.test = "notifications"
    /\ mem.closedAfterBanner
    /\ mem.saves = 2
    /\ mem.banner # NoBanner
    /\ ~mem.dialog

\* C21: in the overlapping-operations test, when Promise.all has resolved
\* (the test body is at its assertions) results holds exactly three entries,
\* one for each of 'first', 'second' and 'third', whatever the order in which
\* the three timers ran; and while a timer of an operation is still pending
\* Promise.all has not resolved and results holds one entry, without a
\* duplicate, for each operation that has completed.
C21_PromiseAllAfterAllThreeOps ==
    mem.test = "ops" =>
        /\ Len(mem.results) = Cardinality(mem.resolved)
        /\ {mem.results[k].op : k \in 1..Len(mem.results)} = mem.resolved
        /\ mem.resolved \cup {t.k : t \in timers} = Ops
        /\ timers # {} => mem.pc = "awaitAll"
        /\ mem.pc = "asserting" =>
              /\ Len(mem.results) = 3
              /\ {mem.results[k].op : k \in 1..3} = Ops
              /\ timers = {}

C21_Witness ==
    /\ mem.test = "ops"
    /\ mem.pc = "asserting"
    /\ mem.results[1].op = "second"
    /\ mem.results[2].op = "first"
    /\ mem.results[3].op = "third"

=============================================================================
